---- MODULE Spec2Model ----
(***************************************************************************)
(* State-machine model of drivers/watchdog/of_xilinx_wdt.c: the Xilinx     *)
(* timebase watchdog (XWDT_WDT) and window watchdog (XWDT_WWDT) driver.    *)
(*                                                                         *)
(* Number representation.  TLC integers are 32-bit signed, the driver's    *)
(* registers are u32 and its cycle counts u64.  A u32 is modelled as the   *)
(* pair <<hi, lo>> of its two 16-bit halves (value hi * 2^16 + lo); a u64  *)
(* cycle count as <<H, lo>> with lo a 16-bit half and H every bit above    *)
(* (value H * 2^16 + lo).  Seconds (timeout, pretimeout, min/max_timeout)  *)
(* stay below 2^15 within the model's inputs and are plain naturals.       *)
(***************************************************************************)
EXTENDS Integers, Sequences, FiniteSets, TLC

\* ------------------------------------------------------------------ u32

\* 2^16: the weight of the high half of a u32.
HALF == 65536

\* BIT(n) of linux/bits.h, as a u32.
BIT(n) == IF n >= 16 THEN <<2 ^ (n - 16), 0>> ELSE <<0, 2 ^ n>>

\* A natural below 2^31 as a u32.
ToU32(n) == <<n \div HALF, n % HALF>>

RECURSIVE And16(_, _)
And16(a, b) ==
    IF a = 0 \/ b = 0 THEN 0
    ELSE (a % 2) * (b % 2) + 2 * And16(a \div 2, b \div 2)

RECURSIVE Or16(_, _)
Or16(a, b) ==
    IF a = 0 THEN b
    ELSE IF b = 0 THEN a
    ELSE (IF a % 2 = 1 \/ b % 2 = 1 THEN 1 ELSE 0) + 2 * Or16(a \div 2, b \div 2)

\* x & y, x | y, ~x on u32.
U32And(x, y) == <<And16(x[1], y[1]), And16(x[2], y[2])>>
U32Or(x, y) == <<Or16(x[1], y[1]), Or16(x[2], y[2])>>
U32Not(x) == <<HALF - 1 - x[1], HALF - 1 - x[2]>>

\* x >> n on u32, 0 <= n <= 31.
U32Shr(x, n) ==
    IF n >= 16 THEN <<0, x[1] \div (2 ^ (n - 16))>>
    ELSE <<x[1] \div (2 ^ n), (x[1] % (2 ^ n)) * (2 ^ (16 - n)) + x[2] \div (2 ^ n)>>

U32Zero == <<0, 0>>
U32_MAX == <<HALF - 1, HALF - 1>>

\* (x & mask) != 0
TestMask(x, mask) == U32And(x, mask) # U32Zero

\* ------------------------------------------------------------------ u64 cycle counts

\* count * secs in u64: count a u32 clock rate, secs a natural below 2^15.
Mul64(count, secs) ==
    LET p == count[2] * secs
    IN <<count[1] * secs + p \div HALF, p % HALF>>

\* a <= b on u64.
Le64(a, b) == a[1] < b[1] \/ (a[1] = b[1] /\ a[2] <= b[2])

\* (u32)x: the low 32 bits of a u64.
Trunc32(x) == <<x[1] % HALF, x[2]>>

\* (u32)(a - b) on u64: the low 32 bits of the difference, which wraps
\* when b > a.
Sub64Trunc32(a, b) ==
    LET borrow == IF a[2] < b[2] THEN 1 ELSE 0
    IN <<((a[1] % HALF) - (b[1] % HALF) - borrow + 2 * HALF) % HALF,
         (a[2] - b[2] + HALF) % HALF>>

\* (a + b) mod 2^32 on u32.
U32Add(a, b) ==
    LET s == a[2] + b[2]
    IN <<(a[1] + b[1] + s \div HALF) % HALF, s % HALF>>

\* n / d for u32 n, d with d >= 2^16 (every nonzero clock rate of the
\* model): the quotient is estimated from the high halves, which never
\* underestimates it, and corrected downwards.
RECURSIVE DivCorrect(_, _, _)
DivCorrect(n, d, q) ==
    IF Le64(Mul64(d, q), n) THEN q ELSE DivCorrect(n, d, q - 1)

U32Div(n, d) == DivCorrect(n, d, n[1] \div d[1])

\* ------------------------------------------------------------------ driver constants

XWT_WWDT_DEFAULT_TIMEOUT == 10
XWT_WWDT_MIN_TIMEOUT == 1

XWT_TWCSR0_OFFSET == 0
XWT_TWCSR1_OFFSET == 4
XWT_TBR_OFFSET == 8

XWT_CSR0_WRS_MASK == BIT(3)
XWT_CSR0_WDS_MASK == BIT(2)
XWT_CSR0_EWDT1_MASK == BIT(1)
XWT_CSRX_EWDT2_MASK == BIT(0)

XWT_MAX_SELFTEST_LOOP_COUNT == 65536
XWT_TIMER_FAILED == U32_MAX

XWT_WWDT_MWR_OFFSET == 0
XWT_WWDT_ESR_OFFSET == 4
XWT_WWDT_FCR_OFFSET == 8
XWT_WWDT_FWR_OFFSET == 12
XWT_WWDT_SWR_OFFSET == 16

XWT_WWDT_MWR_MASK == BIT(0)
XWT_WWDT_ESR_WINT_MASK == BIT(16)
XWT_WWDT_ESR_WSW_MASK == BIT(8)
XWT_WWDT_ESR_WEN_MASK == BIT(0)

\* 0xFF00, 16, 0xC0
XWT_WWDT_SBC_MASK == <<0, 65280>>
XWT_WWDT_SBC_SHIFT == 16
XWT_WWDT_BSS_MASK == <<0, 192>>

EINVAL == 22
\* IRQ_HANDLED of linux/irqreturn.h
IRQ_HANDLED == 1

\* The register block: five 32-bit registers at offsets 0x00..0x10.
Offsets == {0, 4, 8, 12, 16}

\* ------------------------------------------------------------------ state

VARIABLES
    cfg,      \* what attach finds: device type, clock, device-tree properties, module parameter
    pc,       \* "attach", "selftest", "registered", "failed" or "oops"
    regs,     \* the register block, offset -> u32
    wdd,      \* struct watchdog_device: timeout, pretimeout, min/max_timeout, active, info
    clk_cnt,  \* clk_enable calls minus clk_disable calls made by the driver
    lock,     \* xdev->spinlock is held
    self,     \* locals of xwdt_selftest: i, timer_value1, timer_value2, reads
    op,       \* the step taken last
    arg,      \* its argument
    ret,      \* its return value
    log,      \* what it did, in order: register accesses, lock and clock calls
    cpu       \* the contexts that run driver code one access at a time: call stack and locals

vars == <<cfg, pc, regs, wdd, clk_cnt, lock, self, op, arg, ret, log, cpu>>

\* The contexts driver code runs in besides the interrupt handler: the
\* watchdog core calling an operation (it serialises its calls), and the
\* power-management callbacks.
Contexts == {"core", "pm"}

\* A context running no driver code.  stack: the frames [fn, pc], innermost
\* first; holds: it holds xdev->spinlock; the rest are the locals of the
\* functions: control_status_reg (also the SWR read-back), the window
\* check's result, time_out and pre_timeout, ret, and the argument.
CtxIdle == [stack |-> <<>>, holds |-> FALSE, control_status_reg |-> U32Zero,
            closed |-> 1, time_out |-> <<0, 0>>, pre_timeout |-> <<0, 0>>,
            ret |-> 0, new |-> 0]

\* The device as an operation sees and changes it.
Dev == [regs |-> regs, wdd |-> wdd, clk_cnt |-> clk_cnt, lock |-> lock,
        log |-> <<>>, ret |-> 0]

\* ------------------------------------------------------------------ collaborators

Ev(d, e) == [d EXCEPT !.log = Append(@, e)]

iowrite32(d, val, off) ==
    [d EXCEPT !.regs[off] = val, !.log = Append(@, <<"iowrite32", off, val>>)]

\* The value read is d.regs[off]; this records the access.
ioread32(d, off) == Ev(d, <<"ioread32", off, d.regs[off]>>)

spin_lock(d) == [Ev(d, <<"spin_lock">>) EXCEPT !.lock = TRUE]
spin_unlock(d) == [Ev(d, <<"spin_unlock">>) EXCEPT !.lock = FALSE]

\* clk_enable(xdev->clk) returning err (0 on success).
clk_enable(d, err) ==
    IF err = 0 THEN [Ev(d, <<"clk_enable", 0>>) EXCEPT !.clk_cnt = @ + 1]
    ELSE Ev(d, <<"clk_enable", err>>)

clk_disable(d) == [Ev(d, <<"clk_disable">>) EXCEPT !.clk_cnt = @ - 1]

\* What clk_enable can return: a missing (NULL) clock never fails.
ClkErrsNow == IF cfg.clk = "ok" THEN {0, -5} ELSE {0}

\* clk_get_rate(xdev->clk): the clock's rate, 0 when there is no clock.
clk_get_rate == IF cfg.clk = "ok" THEN cfg.rate ELSE U32Zero

\* watchdog_active(wdd): the WDOG_ACTIVE status bit.
watchdog_active(d) == d.wdd.active

Return(d, r) == [d EXCEPT !.ret = r]

\* ------------------------------------------------------------------ window watchdog

\* Mutant: the phase-switch bit read with the opposite polarity.
is_wwdt_in_closed_window_swapped(d) ==
    LET control_status_reg == d.regs[XWT_WWDT_ESR_OFFSET]
    IN IF TestMask(control_status_reg, XWT_WWDT_ESR_WEN_MASK)
          /\ TestMask(control_status_reg, XWT_WWDT_ESR_WSW_MASK)
       THEN 0
       ELSE 1

\* Mutant: the window check never reports the open window.
is_wwdt_in_closed_window_always(d) == 1

is_wwdt_in_closed_window(d) ==
    LET control_status_reg == d.regs[XWT_WWDT_ESR_OFFSET]
    IN IF TestMask(control_status_reg, XWT_WWDT_ESR_WEN_MASK)
          /\ ~TestMask(control_status_reg, XWT_WWDT_ESR_WSW_MASK)
       THEN 0
       ELSE 1

\* The window check as the gated operations make it: the Enable/Status read
\* and its verdict.
WindowCheck(d) ==
    Ev(ioread32(d, XWT_WWDT_ESR_OFFSET),
       <<"is_wwdt_in_closed_window", is_wwdt_in_closed_window(d)>>)

\* Mutant: the first window is programmed with the whole timeout, the
\* pretimeout not taken off.
WwdtStartRegs_whole_first_window(d, time_out, pre_timeout) ==
    LET d1 == spin_lock(d)
        d2 == iowrite32(d1, XWT_WWDT_MWR_MASK, XWT_WWDT_MWR_OFFSET)
        d3 == iowrite32(d2, U32Not(XWT_WWDT_ESR_WEN_MASK), XWT_WWDT_ESR_OFFSET)
        d4 == IF pre_timeout # <<0, 0>>
              THEN LET a == iowrite32(d3, Trunc32(time_out), XWT_WWDT_FWR_OFFSET)
                       b == iowrite32(a, Trunc32(pre_timeout), XWT_WWDT_SWR_OFFSET)
                       c == ioread32(b, XWT_WWDT_SWR_OFFSET)
                       fcr == U32Or(U32And(U32Shr(b.regs[XWT_WWDT_SWR_OFFSET],
                                                  XWT_WWDT_SBC_SHIFT),
                                           XWT_WWDT_SBC_MASK),
                                    XWT_WWDT_BSS_MASK)
                   IN iowrite32(c, fcr, XWT_WWDT_FCR_OFFSET)
              ELSE LET a == iowrite32(d3, Trunc32(pre_timeout), XWT_WWDT_FWR_OFFSET)
                       b == iowrite32(a, Trunc32(time_out), XWT_WWDT_SWR_OFFSET)
                   IN iowrite32(b, U32Zero, XWT_WWDT_FCR_OFFSET)
        d5 == ioread32(d4, XWT_WWDT_ESR_OFFSET)
        control_status_reg == U32Or(d4.regs[XWT_WWDT_ESR_OFFSET], XWT_WWDT_ESR_WEN_MASK)
        d6 == iowrite32(d5, control_status_reg, XWT_WWDT_ESR_OFFSET)
    IN spin_unlock(d6)

\* The register transaction of xilinx_wwdt_start, lines 217-242.
WwdtStartRegs(d, time_out, pre_timeout) ==
    LET d1 == spin_lock(d)
        d2 == iowrite32(d1, XWT_WWDT_MWR_MASK, XWT_WWDT_MWR_OFFSET)
        d3 == iowrite32(d2, U32Not(XWT_WWDT_ESR_WEN_MASK), XWT_WWDT_ESR_OFFSET)
        d4 == IF pre_timeout # <<0, 0>>
              THEN LET a == iowrite32(d3, Sub64Trunc32(time_out, pre_timeout),
                                      XWT_WWDT_FWR_OFFSET)
                       b == iowrite32(a, Trunc32(pre_timeout), XWT_WWDT_SWR_OFFSET)
                       c == ioread32(b, XWT_WWDT_SWR_OFFSET)
                       fcr == U32Or(U32And(U32Shr(b.regs[XWT_WWDT_SWR_OFFSET],
                                                  XWT_WWDT_SBC_SHIFT),
                                           XWT_WWDT_SBC_MASK),
                                    XWT_WWDT_BSS_MASK)
                   IN iowrite32(c, fcr, XWT_WWDT_FCR_OFFSET)
              ELSE LET a == iowrite32(d3, Trunc32(pre_timeout), XWT_WWDT_FWR_OFFSET)
                       b == iowrite32(a, Trunc32(time_out), XWT_WWDT_SWR_OFFSET)
                   IN iowrite32(b, U32Zero, XWT_WWDT_FCR_OFFSET)
        d5 == ioread32(d4, XWT_WWDT_ESR_OFFSET)
        control_status_reg == U32Or(d4.regs[XWT_WWDT_ESR_OFFSET], XWT_WWDT_ESR_WEN_MASK)
        d6 == iowrite32(d5, control_status_reg, XWT_WWDT_ESR_OFFSET)
    IN spin_unlock(d6)

\* Mutant: the registers are programmed before the clock is enabled, so a
\* failed clk_enable leaves the device started.
xilinx_wwdt_start_enable_late(d, clk_err) ==
    LET count == clk_get_rate
        pre_timeout == Mul64(count, d.wdd.pretimeout)
        time_out == Mul64(count, d.wdd.timeout)
    IN IF count = U32Zero THEN Return(d, -EINVAL)
       ELSE LET d1 == WwdtStartRegs(d, time_out, pre_timeout)
            IN IF ~watchdog_active(d) THEN Return(clk_enable(d1, clk_err), clk_err)
               ELSE Return(d1, 0)

\* clk_err: what clk_enable returns if it is called.
xilinx_wwdt_start(d, clk_err) ==
    LET count == clk_get_rate
        pre_timeout == Mul64(count, d.wdd.pretimeout)
        time_out == Mul64(count, d.wdd.timeout)
    IN IF count = U32Zero THEN Return(d, -EINVAL)
       ELSE IF ~watchdog_active(d) /\ clk_err # 0
            THEN Return(clk_enable(d, clk_err), clk_err)
       ELSE LET d1 == IF ~watchdog_active(d) THEN clk_enable(d, 0) ELSE d
            IN Return(WwdtStartRegs(d1, time_out, pre_timeout), 0)

\* Mutant: the clock is disabled whether or not the device is active, as
\* the timebase variant's stop does.
xilinx_wwdt_stop_always_disable(d) ==
    LET d0 == WindowCheck(d)
    IN IF is_wwdt_in_closed_window(d) = 0 THEN Return(d0, -EINVAL)
       ELSE LET d1 == spin_lock(d0)
                d2 == iowrite32(d1, XWT_WWDT_MWR_MASK, XWT_WWDT_MWR_OFFSET)
                d3 == iowrite32(d2, U32Not(XWT_WWDT_ESR_WEN_MASK), XWT_WWDT_ESR_OFFSET)
                d4 == spin_unlock(d3)
            IN Return(clk_disable(d4), 0)

\* Mutant: Enable/Status is written without Master Write Control being
\* unlocked first.
xilinx_wwdt_stop_locked_registers(d) ==
    LET d0 == WindowCheck(d)
    IN IF is_wwdt_in_closed_window(d) = 0 THEN Return(d0, -EINVAL)
       ELSE LET d1 == spin_lock(d0)
                d3 == iowrite32(d1, U32Not(XWT_WWDT_ESR_WEN_MASK), XWT_WWDT_ESR_OFFSET)
                d4 == spin_unlock(d3)
                d5 == IF watchdog_active(d4) THEN clk_disable(d4) ELSE d4
            IN Return(d5, 0)

xilinx_wwdt_stop(d) ==
    LET d0 == WindowCheck(d)
    IN IF is_wwdt_in_closed_window(d) = 0 THEN Return(d0, -EINVAL)
       ELSE LET d1 == spin_lock(d0)
                d2 == iowrite32(d1, XWT_WWDT_MWR_MASK, XWT_WWDT_MWR_OFFSET)
                d3 == iowrite32(d2, U32Not(XWT_WWDT_ESR_WEN_MASK), XWT_WWDT_ESR_OFFSET)
                d4 == spin_unlock(d3)
                d5 == IF watchdog_active(d4) THEN clk_disable(d4) ELSE d4
            IN Return(d5, 0)

\* Mutant: the refresh is written in the open window too.
xilinx_wwdt_keepalive_ungated(d) ==
    LET d0 == WindowCheck(d)
        d1 == spin_lock(d0)
        d2 == iowrite32(d1, XWT_WWDT_MWR_MASK, XWT_WWDT_MWR_OFFSET)
        d3 == ioread32(d2, XWT_WWDT_ESR_OFFSET)
        v1 == U32And(U32Or(d2.regs[XWT_WWDT_ESR_OFFSET], XWT_WWDT_ESR_WINT_MASK),
                     U32Not(XWT_WWDT_ESR_WSW_MASK))
        d4 == iowrite32(d3, v1, XWT_WWDT_ESR_OFFSET)
        d5 == ioread32(d4, XWT_WWDT_ESR_OFFSET)
        v2 == U32Or(d4.regs[XWT_WWDT_ESR_OFFSET], XWT_WWDT_ESR_WSW_MASK)
        d6 == iowrite32(d5, v2, XWT_WWDT_ESR_OFFSET)
    IN Return(spin_unlock(d6), 0)

xilinx_wwdt_keepalive(d) ==
    LET d0 == WindowCheck(d)
    IN IF is_wwdt_in_closed_window(d) = 0 THEN Return(d0, 0)
       ELSE LET d1 == spin_lock(d0)
                d2 == iowrite32(d1, XWT_WWDT_MWR_MASK, XWT_WWDT_MWR_OFFSET)
                d3 == ioread32(d2, XWT_WWDT_ESR_OFFSET)
                v1 == U32And(U32Or(d2.regs[XWT_WWDT_ESR_OFFSET], XWT_WWDT_ESR_WINT_MASK),
                             U32Not(XWT_WWDT_ESR_WSW_MASK))
                d4 == iowrite32(d3, v1, XWT_WWDT_ESR_OFFSET)
                d5 == ioread32(d4, XWT_WWDT_ESR_OFFSET)
                v2 == U32Or(d4.regs[XWT_WWDT_ESR_OFFSET], XWT_WWDT_ESR_WSW_MASK)
                d6 == iowrite32(d5, v2, XWT_WWDT_ESR_OFFSET)
            IN Return(spin_unlock(d6), 0)

\* Mutant: the new timeout is committed but the running device is not
\* re-armed.
xilinx_wwdt_set_timeout_no_rearm(d, new_time, clk_err) ==
    LET d0 == WindowCheck(d)
    IN IF is_wwdt_in_closed_window(d) = 0 THEN Return(d0, -EINVAL)
       ELSE IF new_time < d.wdd.min_timeout \/ new_time > d.wdd.max_timeout
            THEN Return(d0, -EINVAL)
       ELSE Return([d0 EXCEPT !.wdd.timeout = new_time, !.wdd.pretimeout = 0], 0)

\* Mutant: the pretimeout is left as it was.
xilinx_wwdt_set_timeout_keeps_pretimeout(d, new_time, clk_err) ==
    LET d0 == WindowCheck(d)
    IN IF is_wwdt_in_closed_window(d) = 0 THEN Return(d0, -EINVAL)
       ELSE IF new_time < d.wdd.min_timeout \/ new_time > d.wdd.max_timeout
            THEN Return(d0, -EINVAL)
       ELSE LET d1 == [d0 EXCEPT !.wdd.timeout = new_time]
                d2 == IF watchdog_active(d1) THEN xilinx_wwdt_start(d1, clk_err) ELSE d1
            IN Return(d2, 0)

\* The result of the nested xilinx_wwdt_start is only logged (dev_dbg):
\* the function returns 0 whatever it was.
xilinx_wwdt_set_timeout(d, new_time, clk_err) ==
    LET d0 == WindowCheck(d)
    IN IF is_wwdt_in_closed_window(d) = 0 THEN Return(d0, -EINVAL)
       ELSE IF new_time < d.wdd.min_timeout \/ new_time > d.wdd.max_timeout
            THEN Return(d0, -EINVAL)
       ELSE LET d1 == [d0 EXCEPT !.wdd.timeout = new_time, !.wdd.pretimeout = 0]
                d2 == IF watchdog_active(d1) THEN xilinx_wwdt_start(d1, clk_err) ELSE d1
            IN Return(d2, 0)

\* Mutant: a pretimeout equal to the timeout is let through.
xilinx_wwdt_set_pretimeout_off_by_one(d, new_pretimeout, clk_err) ==
    LET d0 == WindowCheck(d)
    IN IF is_wwdt_in_closed_window(d) = 0 THEN Return(d0, -EINVAL)
       ELSE IF new_pretimeout < d.wdd.min_timeout \/ new_pretimeout > d.wdd.timeout
            THEN Return(d0, -EINVAL)
       ELSE LET d1 == [d0 EXCEPT !.wdd.pretimeout = new_pretimeout]
                d2 == IF watchdog_active(d1) THEN xilinx_wwdt_start(d1, clk_err) ELSE d1
            IN Return(d2, 0)

xilinx_wwdt_set_pretimeout(d, new_pretimeout, clk_err) ==
    LET d0 == WindowCheck(d)
    IN IF is_wwdt_in_closed_window(d) = 0 THEN Return(d0, -EINVAL)
       ELSE IF new_pretimeout < d.wdd.min_timeout \/ new_pretimeout >= d.wdd.timeout
            THEN Return(d0, -EINVAL)
       ELSE LET d1 == [d0 EXCEPT !.wdd.pretimeout = new_pretimeout]
                d2 == IF watchdog_active(d1) THEN xilinx_wwdt_start(d1, clk_err) ELSE d1
            IN Return(d2, 0)

\* Mutant: the handler takes the device lock around the notification.
xilinx_wwdt_isr_locking(d) ==
    Return(spin_unlock(Ev(spin_lock(d), <<"watchdog_notify_pretimeout">>)), IRQ_HANDLED)

xilinx_wwdt_isr(d) == Return(Ev(d, <<"watchdog_notify_pretimeout">>), IRQ_HANDLED)

\* ------------------------------------------------------------------ timebase watchdog

xilinx_wdt_start(d, clk_err) ==
    IF clk_err # 0 THEN Return(clk_enable(d, clk_err), clk_err)
    ELSE LET d1 == spin_lock(clk_enable(d, 0))
             d2 == ioread32(d1, XWT_TWCSR0_OFFSET)
             control_status_reg ==
                 U32Or(d1.regs[XWT_TWCSR0_OFFSET],
                       U32Or(XWT_CSR0_WRS_MASK, XWT_CSR0_WDS_MASK))
             d3 == iowrite32(d2, U32Or(control_status_reg, XWT_CSR0_EWDT1_MASK),
                             XWT_TWCSR0_OFFSET)
             d4 == iowrite32(d3, XWT_CSRX_EWDT2_MASK, XWT_TWCSR1_OFFSET)
         IN Return(spin_unlock(d4), 0)

xilinx_wdt_stop(d) ==
    LET d1 == spin_lock(d)
        d2 == ioread32(d1, XWT_TWCSR0_OFFSET)
        d3 == iowrite32(d2, U32And(d1.regs[XWT_TWCSR0_OFFSET],
                                   U32Not(XWT_CSR0_EWDT1_MASK)),
                        XWT_TWCSR0_OFFSET)
        d4 == iowrite32(d3, U32Zero, XWT_TWCSR1_OFFSET)
        d5 == spin_unlock(d4)
    IN Return(clk_disable(d5), 0)

xilinx_wdt_keepalive(d) ==
    LET d1 == spin_lock(d)
        d2 == ioread32(d1, XWT_TWCSR0_OFFSET)
        control_status_reg ==
            U32Or(d1.regs[XWT_TWCSR0_OFFSET],
                  U32Or(XWT_CSR0_WRS_MASK, XWT_CSR0_WDS_MASK))
        d3 == iowrite32(d2, control_status_reg, XWT_TWCSR0_OFFSET)
    IN Return(spin_unlock(d3), 0)

\* ------------------------------------------------------------------ power management

\* wdd->ops, set at probe from the device type's xwdt_devtype_data.
ops_start(d, clk_err) ==
    IF cfg.wdttype = "XWDT_WDT" THEN xilinx_wdt_start(d, clk_err)
    ELSE xilinx_wwdt_start(d, clk_err)

ops_stop(d) ==
    IF cfg.wdttype = "XWDT_WDT" THEN xilinx_wdt_stop(d) ELSE xilinx_wwdt_stop(d)

\* The result of ops->stop is dropped.
xwdt_suspend(d) ==
    IF watchdog_active(d) THEN Return(ops_stop(d), 0) ELSE Return(d, 0)

xwdt_resume(d, clk_err) ==
    IF watchdog_active(d) THEN ops_start(d, clk_err) ELSE Return(d, 0)

\* ------------------------------------------------------------------ attach

\* Model inputs.  Clock rates in Hz: none, 100 MHz, 1 GHz.
ClockRates == {U32Zero, ToU32(100000000), ToU32(1000000000)}
\* "pretimeout-sec" of the device tree (0: absent).
PretimeoutSecs == {0, 2, 15}
\* The wdt_timeout module parameter (0: not given).
WdtTimeouts == {0, 5}
\* "xlnx,wdt-interval" of the device tree (0: absent).
WdtIntervals == {0, 30}
\* Arguments of set_timeout and set_pretimeout.  MaxArg bounds them.
MaxArg == 43
NewTimes == {0, 4, MaxArg}
NewPretimeouts == {0, 2, 4, MaxArg}
\* The driver's clock calls may come out this far below balance.
MaxClkDeficit == 1
\* ... and this far above.
MaxClkSurplus == 2

EPROBE_DEFER == 517
EBUSY == 16

\* watchdog_init_timeout: the module parameter replaces the default timeout
\* when it is given and within [min_timeout, max_timeout]; an invalid one is
\* reported (rc) and the default kept.
watchdog_init_timeout(w, timeout_parm) ==
    IF timeout_parm # 0 /\ timeout_parm >= w.min_timeout /\ timeout_parm <= w.max_timeout
    THEN [wdd |-> [w EXCEPT !.timeout = timeout_parm], rc |-> 0]
    ELSE [wdd |-> w, rc |-> IF timeout_parm # 0 THEN -EINVAL ELSE 0]

\* pfreq of xwdt_probe, lines 502-529.
ProbePfreq == cfg.rate

\* What the unsigned division by pfreq == 0 at line 552 can do: trap (the
\* probe never returns), or go on with a quotient of 0.
DivByZeroOutcomes == {"trap", "zero"}

\* The quotient the division at line 552 yields where it does not trap.
ProbeMaxTimeout(pfreq) ==
    IF pfreq = U32Zero THEN 0 ELSE U32Div(U32_MAX, pfreq)

\* The window branch of xwdt_probe, lines 541-566, on the zeroed
\* watchdog_device.
ProbeWwdtConfig(w, pfreq, irq_ok) ==
    LET w1 == [w EXCEPT !.pretimeout = cfg.pretimeout_sec,
                        !.timeout = XWT_WWDT_DEFAULT_TIMEOUT,
                        !.min_timeout = XWT_WWDT_MIN_TIMEOUT,
                        !.max_timeout = ProbeMaxTimeout(pfreq),
                        !.info = IF irq_ok THEN "xilinx_wwdt_pretimeout_ident"
                                 ELSE "xilinx_wwdt_ident"]
    IN watchdog_init_timeout(w1, cfg.wdt_timeout).wdd

\* The timebase branch, lines 531-540.
ProbeWdtConfig(w, pfreq) ==
    IF pfreq # U32Zero /\ cfg.wdt_interval # 0
    THEN [w EXCEPT !.timeout = 2 * U32Div(ToU32(2 ^ cfg.wdt_interval), pfreq)]
    ELSE w

\* devm_kzalloc'ed watchdog_device.
WddZero == [timeout |-> 0, pretimeout |-> 0, min_timeout |-> 0, max_timeout |-> 0,
            active |-> FALSE, info |-> "none"]

SelfZero == [i |-> 0, timer_value1 |-> U32Zero, timer_value2 |-> U32Zero, reads |-> 0]

InitCommon ==
    /\ pc = "attach"
    /\ regs = [o \in Offsets |-> U32Zero]
    /\ wdd = WddZero
    /\ clk_cnt = 0
    /\ lock = FALSE
    /\ self = SelfZero
    /\ op = "none"
    /\ arg = 0
    /\ ret = 0
    /\ log = <<>>
    /\ cpu = [c \in Contexts |-> CtxIdle]

\* A window watchdog about to be attached.
Init ==
    /\ cfg \in [wdttype : {"XWDT_WWDT"}, clk : {"ok", "enoent", "defer"},
                rate : ClockRates, pretimeout_sec : PretimeoutSecs,
                wdt_timeout : WdtTimeouts, wdt_interval : {0}, irq : BOOLEAN]
    /\ InitCommon

\* A timebase watchdog about to be attached.
InitPlain ==
    /\ cfg \in [wdttype : {"XWDT_WDT"}, clk : {"ok", "enoent"},
                rate : {U32Zero, ToU32(100000000)}, pretimeout_sec : {0},
                wdt_timeout : {0}, wdt_interval : WdtIntervals, irq : {FALSE}]
    /\ InitCommon

\* An operation's outcome becomes the state.
Commit(d, name, a) ==
    /\ regs' = d.regs
    /\ wdd' = d.wdd
    /\ clk_cnt' = d.clk_cnt
    /\ lock' = d.lock
    /\ log' = d.log
    /\ ret' = d.ret
    /\ op' = name
    /\ arg' = a
    /\ UNCHANGED <<cfg, self, cpu>>

\* xwdt_probe of a window watchdog.  clk_err: what clk_prepare_enable
\* returns; dz: what a division by zero does; reg_err: what
\* devm_watchdog_register_device returns.
Probe ==
    /\ pc = "attach"
    /\ cfg.wdttype = "XWDT_WWDT"
    /\ \E clk_err \in ClkErrsNow, dz \in DivByZeroOutcomes, reg_err \in {0, -EBUSY} :
        LET pfreq == ProbePfreq
            d1 == IF cfg.clk = "ok" THEN clk_enable(Dev, clk_err) ELSE Dev
            d2 == Ev(d1, <<"udiv", pfreq>>)
            d3 == [d2 EXCEPT !.wdd = ProbeWwdtConfig(d2.wdd, pfreq, cfg.irq)]
        IN IF cfg.clk = "defer"
           THEN pc' = "failed" /\ Commit(Return(Dev, -EPROBE_DEFER), "probe", 0)
           ELSE IF clk_err # 0
           THEN pc' = "failed" /\ Commit(Return(d1, clk_err), "probe", 0)
           ELSE IF pfreq = U32Zero /\ dz = "trap"
           THEN pc' = "oops" /\ Commit(d2, "probe", 0)
           ELSE IF reg_err # 0
           THEN pc' = "failed"
                /\ Commit(Return(IF cfg.clk = "ok" THEN clk_disable(d3) ELSE d3, reg_err),
                          "probe", 0)
           ELSE pc' = "registered"
                /\ Commit(Return(IF cfg.clk = "ok" THEN clk_disable(d3) ELSE d3, 0),
                          "probe", 0)

\* The watchdog core calls ops->start and marks the device active when it
\* succeeds.
Start ==
    /\ pc = "registered"
    /\ clk_cnt < MaxClkSurplus
    /\ \E clk_err \in ClkErrsNow :
        LET d == ops_start(Dev, clk_err)
        IN Commit(IF d.ret = 0 THEN [d EXCEPT !.wdd.active = TRUE] ELSE d, "start", 0)
    /\ UNCHANGED pc

\* The watchdog core calls ops->stop and marks the device inactive when it
\* succeeds.
Stop ==
    /\ pc = "registered"
    /\ clk_cnt > -MaxClkDeficit
    /\ LET d == ops_stop(Dev)
       IN Commit(IF d.ret = 0 THEN [d EXCEPT !.wdd.active = FALSE] ELSE d, "stop", 0)
    /\ UNCHANGED pc

Keepalive ==
    /\ pc = "registered"
    /\ cfg.wdttype = "XWDT_WWDT"
    /\ Commit(xilinx_wwdt_keepalive(Dev), "keepalive", 0)
    /\ UNCHANGED pc

SetTimeout ==
    /\ pc = "registered"
    /\ cfg.wdttype = "XWDT_WWDT"
    /\ \E new_time \in NewTimes, clk_err \in ClkErrsNow :
        Commit(xilinx_wwdt_set_timeout(Dev, new_time, clk_err), "set_timeout", new_time)
    /\ UNCHANGED pc

SetPretimeout ==
    /\ pc = "registered"
    /\ cfg.wdttype = "XWDT_WWDT"
    /\ \E new_pretimeout \in NewPretimeouts, clk_err \in ClkErrsNow :
        Commit(xilinx_wwdt_set_pretimeout(Dev, new_pretimeout, clk_err),
               "set_pretimeout", new_pretimeout)
    /\ UNCHANGED pc

Suspend ==
    /\ pc = "registered"
    /\ clk_cnt > -MaxClkDeficit
    /\ Commit(xwdt_suspend(Dev), "suspend", 0)
    /\ UNCHANGED pc

Resume ==
    /\ pc = "registered"
    /\ clk_cnt < MaxClkSurplus
    /\ \E clk_err \in ClkErrsNow : Commit(xwdt_resume(Dev, clk_err), "resume", 0)
    /\ UNCHANGED pc

\* The "wdt" interrupt fires; the handler is installed when the line was
\* requested at probe.
Isr ==
    /\ pc = "registered"
    /\ wdd.info = "xilinx_wwdt_pretimeout_ident"
    /\ Commit(xilinx_wwdt_isr(Dev), "isr", 0)
    /\ UNCHANGED pc

\* The hardware moves between its two windows while enabled: the
\* phase-switch bit of Enable/Status flips.
HwPhase ==
    /\ pc = "registered"
    /\ cfg.wdttype = "XWDT_WWDT"
    /\ TestMask(regs[XWT_WWDT_ESR_OFFSET], XWT_WWDT_ESR_WEN_MASK)
    /\ LET esr == regs[XWT_WWDT_ESR_OFFSET]
           flipped == IF TestMask(esr, XWT_WWDT_ESR_WSW_MASK)
                      THEN U32And(esr, U32Not(XWT_WWDT_ESR_WSW_MASK))
                      ELSE U32Or(esr, XWT_WWDT_ESR_WSW_MASK)
       IN regs' = [regs EXCEPT ![XWT_WWDT_ESR_OFFSET] = flipped]
    /\ op' = "hw" /\ arg' = 0 /\ ret' = 0 /\ log' = <<>>
    /\ UNCHANGED <<cfg, pc, wdd, clk_cnt, lock, self, cpu>>

\* The clock loses its parent while the device is registered: from now on
\* clk_get_rate reads 0, as it does for an orphan clock.
ClkRateLost ==
    /\ pc = "registered"
    /\ cfg.wdttype = "XWDT_WWDT"
    /\ clk_get_rate # U32Zero
    /\ cfg' = [cfg EXCEPT !.rate = U32Zero]
    /\ op' = "clk" /\ arg' = 0 /\ ret' = 0 /\ log' = <<>>
    /\ UNCHANGED <<pc, regs, wdd, clk_cnt, lock, self, cpu>>

Next ==
    \/ Probe
    \/ Start
    \/ Stop
    \/ Keepalive
    \/ SetTimeout
    \/ SetPretimeout
    \/ Suspend
    \/ Resume
    \/ Isr
    \/ HwPhase
    \/ ClkRateLost

Spec == Init /\ [][Next]_vars

\* ------------------------------------------------------------------ timebase watchdog: attach and self-test

\* What a read of the free-running timebase register can return after it
\* returned v: the same value, or the next.
TbrReads(v) == {v, U32Add(v, <<0, 1>>)}

\* The loop condition of xwdt_selftest, lines 407-408.
SelftestLooping ==
    self.i <= XWT_MAX_SELFTEST_LOOP_COUNT /\ self.timer_value2 = self.timer_value1

\* xwdt_probe of a timebase watchdog up to the loop of xwdt_selftest: the
\* lock is taken and the timebase read twice.
ProbePlain ==
    /\ pc = "attach"
    /\ cfg.wdttype = "XWDT_WDT"
    /\ \E clk_err \in ClkErrsNow, v2 \in TbrReads(U32Zero) :
        LET pfreq == ProbePfreq
            d1 == IF cfg.clk = "ok" THEN clk_enable(Dev, clk_err) ELSE Dev
            d2 == [d1 EXCEPT !.wdd = [ProbeWdtConfig(d1.wdd, pfreq)
                                      EXCEPT !.info = "xilinx_wdt_ident"]]
            d3 == spin_lock(d2)
            d4 == [ioread32(d3, XWT_TBR_OFFSET) EXCEPT !.regs[XWT_TBR_OFFSET] = v2]
            d5 == ioread32(d4, XWT_TBR_OFFSET)
        IN IF clk_err # 0
           THEN /\ pc' = "failed"
                /\ Commit(Return(d1, clk_err), "probe", 0)
           ELSE /\ pc' = "selftest"
                /\ regs' = d5.regs
                /\ wdd' = d5.wdd
                /\ clk_cnt' = d5.clk_cnt
                /\ lock' = d5.lock
                /\ log' = d5.log
                /\ self' = [i |-> 0, timer_value1 |-> U32Zero, timer_value2 |-> v2,
                            reads |-> 2]
                /\ op' = "probe" /\ arg' = 0 /\ ret' = 0
                /\ UNCHANGED <<cfg, cpu>>

\* One iteration of the loop: line 409 and the i++.
SelftestRead ==
    /\ pc = "selftest"
    /\ SelftestLooping
    /\ \E v \in TbrReads(self.timer_value2) :
        /\ self' = [self EXCEPT !.i = @ + 1, !.timer_value2 = v, !.reads = @ + 1]
        /\ regs' = [regs EXCEPT ![XWT_TBR_OFFSET] = v]
    /\ op' = "selftest_read" /\ arg' = 0 /\ ret' = 0 /\ log' = <<>>
    /\ UNCHANGED <<cfg, pc, wdd, clk_cnt, lock, cpu>>

\* The value xwdt_selftest returns, lines 414-417.
SelftestResult ==
    IF self.timer_value2 # self.timer_value1 THEN U32Not(XWT_TIMER_FAILED)
    ELSE XWT_TIMER_FAILED

\* The loop is left: the lock is released and the probe goes on, lines
\* 412-418 and 572-590.  A failed self-test returns rc, (int)0xFFFFFFFF.
SelftestDone ==
    /\ pc = "selftest"
    /\ ~SelftestLooping
    /\ self' = SelfZero
    /\ UNCHANGED <<cfg, cpu>>
    /\ \E reg_err \in {0, -EBUSY} :
        LET d1 == spin_unlock(Dev)
            d2 == IF cfg.clk = "ok" THEN clk_disable(d1) ELSE d1
        IN IF SelftestResult = XWT_TIMER_FAILED
           THEN /\ pc' = "failed"
                /\ regs' = d2.regs /\ wdd' = d2.wdd /\ clk_cnt' = d2.clk_cnt
                /\ lock' = d2.lock /\ log' = d2.log
                /\ ret' = -1 /\ op' = "probe" /\ arg' = 0
           ELSE /\ pc' = IF reg_err # 0 THEN "failed" ELSE "registered"
                /\ regs' = d2.regs /\ wdd' = d2.wdd /\ clk_cnt' = d2.clk_cnt
                /\ lock' = d2.lock /\ log' = d2.log
                /\ ret' = reg_err /\ op' = "probe" /\ arg' = 0

KeepalivePlain ==
    /\ pc = "registered"
    /\ cfg.wdttype = "XWDT_WDT"
    /\ Commit(xilinx_wdt_keepalive(Dev), "keepalive", 0)
    /\ UNCHANGED pc

NextPlain ==
    \/ ProbePlain
    \/ SelftestRead
    \/ SelftestDone
    \/ Start
    \/ Stop
    \/ KeepalivePlain
    \/ Suspend
    \/ Resume

SpecPlain == InitPlain /\ [][NextPlain]_vars

\* ------------------------------------------------------------------ both variants

\* A device of either type, attached and operated as above.
InitBoth == Init \/ InitPlain

NextBoth ==
    \/ Probe
    \/ ProbePlain
    \/ SelftestRead
    \/ SelftestDone
    \/ Start
    \/ Stop
    \/ Keepalive
    \/ KeepalivePlain
    \/ SetTimeout
    \/ SetPretimeout
    \/ Suspend
    \/ Resume
    \/ Isr
    \/ HwPhase
    \/ ClkRateLost

SpecBoth == InitBoth /\ [][NextBoth]_vars

\* ------------------------------------------------------------------ the operations, one access at a time

\* What a function does next: k is the kind of step, off and val the
\* register and value (or the return value, or the callee), nxt the place in
\* the function it goes on from.  A branch on a local is decided where the
\* step after it is chosen.
I(k, off, val, nxt) == [k |-> k, off |-> off, val |-> val, nxt |-> nxt]
Ret(v) == I("return", 0, v, 0)

\* x: the context's locals; n: the place in the function.
xilinx_wwdt_start_at(x, n) ==
    CASE n = 0 -> IF clk_get_rate = U32Zero THEN Ret(-EINVAL)        \* 202-204
                  ELSE I("counts", 0, 0, 1)                           \* 207-208
      [] n = 1 -> IF ~wdd.active THEN I("clk_enable", 0, 0, 2)        \* 209-215
                  ELSE I("spin_lock", 0, 0, 3)
      [] n = 2 -> I("spin_lock", 0, 0, 3)                             \* 217
      [] n = 3 -> I("iowrite32", XWT_WWDT_MWR_OFFSET, XWT_WWDT_MWR_MASK, 4)
      [] n = 4 -> I("iowrite32", XWT_WWDT_ESR_OFFSET, U32Not(XWT_WWDT_ESR_WEN_MASK), 5)
      [] n = 5 -> IF x.pre_timeout # <<0, 0>>                         \* 222
                  THEN I("iowrite32", XWT_WWDT_FWR_OFFSET,
                         Sub64Trunc32(x.time_out, x.pre_timeout), 6)
                  ELSE I("iowrite32", XWT_WWDT_FWR_OFFSET, Trunc32(x.pre_timeout), 6)
      [] n = 6 -> IF x.pre_timeout # <<0, 0>>
                  THEN I("iowrite32", XWT_WWDT_SWR_OFFSET, Trunc32(x.pre_timeout), 7)
                  ELSE I("iowrite32", XWT_WWDT_SWR_OFFSET, Trunc32(x.time_out), 8)
      [] n = 7 -> I("ioread32", XWT_WWDT_SWR_OFFSET, 0, 8)            \* 226
      [] n = 8 -> IF x.pre_timeout # <<0, 0>>
                  THEN I("iowrite32", XWT_WWDT_FCR_OFFSET,
                         U32Or(U32And(U32Shr(x.control_status_reg, XWT_WWDT_SBC_SHIFT),
                                      XWT_WWDT_SBC_MASK),
                               XWT_WWDT_BSS_MASK), 9)
                  ELSE I("iowrite32", XWT_WWDT_FCR_OFFSET, U32Zero, 9)
      [] n = 9 -> I("ioread32", XWT_WWDT_ESR_OFFSET, 0, 10)           \* 238
      [] n = 10 -> I("iowrite32", XWT_WWDT_ESR_OFFSET,
                     U32Or(x.control_status_reg, XWT_WWDT_ESR_WEN_MASK), 11)
      [] n = 11 -> I("spin_unlock", 0, 0, 12)                         \* 242
      [] OTHER -> Ret(0)

\* Mutant: the lock is dropped once the device is disabled, and the
\* windows are programmed without it.
xilinx_wwdt_stop_at_unlock_early(x, n) ==
    CASE n = 0 -> I("check", 0, 0, 1)
      [] n = 1 -> IF x.closed = 0 THEN Ret(-EINVAL) ELSE I("spin_lock", 0, 0, 2)
      [] n = 2 -> I("iowrite32", XWT_WWDT_MWR_OFFSET, XWT_WWDT_MWR_MASK, 3)
      [] n = 3 -> I("spin_unlock", 0, 0, 4)
      [] n = 4 -> I("iowrite32", XWT_WWDT_ESR_OFFSET, U32Not(XWT_WWDT_ESR_WEN_MASK), 5)
      [] n = 5 -> IF wdd.active THEN I("clk_disable", 0, 0, 6) ELSE Ret(0)
      [] OTHER -> Ret(0)

xilinx_wwdt_stop_at(x, n) ==
    CASE n = 0 -> I("check", 0, 0, 1)                                 \* 254
      [] n = 1 -> IF x.closed = 0 THEN Ret(-EINVAL)                   \* 254-257
                  ELSE I("spin_lock", 0, 0, 2)                        \* 259
      [] n = 2 -> I("iowrite32", XWT_WWDT_MWR_OFFSET, XWT_WWDT_MWR_MASK, 3)
      [] n = 3 -> I("iowrite32", XWT_WWDT_ESR_OFFSET, U32Not(XWT_WWDT_ESR_WEN_MASK), 4)
      [] n = 4 -> I("spin_unlock", 0, 0, 5)                           \* 266
      [] n = 5 -> IF wdd.active THEN I("clk_disable", 0, 0, 6)        \* 268-269
                  ELSE Ret(0)
      [] OTHER -> Ret(0)

xilinx_wwdt_keepalive_at(x, n) ==
    CASE n = 0 -> I("check", 0, 0, 1)                                 \* 282
      [] n = 1 -> IF x.closed = 0 THEN Ret(0)                         \* 282-283
                  ELSE I("spin_lock", 0, 0, 2)                        \* 285
      [] n = 2 -> I("iowrite32", XWT_WWDT_MWR_OFFSET, XWT_WWDT_MWR_MASK, 3)
      [] n = 3 -> I("ioread32", XWT_WWDT_ESR_OFFSET, 0, 4)
      [] n = 4 -> I("iowrite32", XWT_WWDT_ESR_OFFSET,
                    U32And(U32Or(x.control_status_reg, XWT_WWDT_ESR_WINT_MASK),
                           U32Not(XWT_WWDT_ESR_WSW_MASK)), 5)
      [] n = 5 -> I("ioread32", XWT_WWDT_ESR_OFFSET, 0, 6)
      [] n = 6 -> I("iowrite32", XWT_WWDT_ESR_OFFSET,
                    U32Or(x.control_status_reg, XWT_WWDT_ESR_WSW_MASK), 7)
      [] n = 7 -> I("spin_unlock", 0, 0, 8)                           \* 296
      [] OTHER -> Ret(0)

xilinx_wwdt_set_timeout_at(x, n) ==
    CASE n = 0 -> I("check", 0, 0, 1)                                 \* 309
      [] n = 1 -> IF x.closed = 0 THEN Ret(-EINVAL)
                  ELSE IF x.new < wdd.min_timeout \/ x.new > wdd.max_timeout
                  THEN Ret(-EINVAL)                                   \* 314-321
                  ELSE I("store", "timeout", 0, 2)                    \* 319-320
      [] n = 2 -> IF wdd.active THEN I("call", 0, "xilinx_wwdt_start", 3)
                  ELSE Ret(0)                                         \* 322-323
      [] OTHER -> Ret(0)                                              \* 331

xilinx_wwdt_set_pretimeout_at(x, n) ==
    CASE n = 0 -> I("check", 0, 0, 1)                                 \* 341
      [] n = 1 -> IF x.closed = 0 THEN Ret(-EINVAL)
                  ELSE IF x.new < wdd.min_timeout \/ x.new >= wdd.timeout
                  THEN Ret(-EINVAL)                                   \* 346-348
                  ELSE I("store", "pretimeout", 0, 2)                 \* 350
      [] n = 2 -> IF wdd.active THEN I("call", 0, "xilinx_wwdt_start", 3)
                  ELSE Ret(0)                                         \* 352-353
      [] OTHER -> Ret(0)                                              \* 358

xilinx_wdt_start_at(x, n) ==
    CASE n = 0 -> I("clk_enable", 0, 0, 1)                            \* 104-108
      [] n = 1 -> I("spin_lock", 0, 0, 2)                             \* 110
      [] n = 2 -> I("ioread32", XWT_TWCSR0_OFFSET, 0, 3)
      [] n = 3 -> I("iowrite32", XWT_TWCSR0_OFFSET,
                    U32Or(U32Or(x.control_status_reg,
                                U32Or(XWT_CSR0_WRS_MASK, XWT_CSR0_WDS_MASK)),
                          XWT_CSR0_EWDT1_MASK), 4)
      [] n = 4 -> I("iowrite32", XWT_TWCSR1_OFFSET, XWT_CSRX_EWDT2_MASK, 5)
      [] n = 5 -> I("spin_unlock", 0, 0, 6)                           \* 121
      [] OTHER -> Ret(0)

xilinx_wdt_stop_at(x, n) ==
    CASE n = 0 -> I("spin_lock", 0, 0, 1)                             \* 133
      [] n = 1 -> I("ioread32", XWT_TWCSR0_OFFSET, 0, 2)
      [] n = 2 -> I("iowrite32", XWT_TWCSR0_OFFSET,
                    U32And(x.control_status_reg, U32Not(XWT_CSR0_EWDT1_MASK)), 3)
      [] n = 3 -> I("iowrite32", XWT_TWCSR1_OFFSET, U32Zero, 4)
      [] n = 4 -> I("spin_unlock", 0, 0, 5)                           \* 142
      [] n = 5 -> I("clk_disable", 0, 0, 6)                           \* 144
      [] OTHER -> Ret(0)

xilinx_wdt_keepalive_at(x, n) ==
    CASE n = 0 -> I("spin_lock", 0, 0, 1)                             \* 156
      [] n = 1 -> I("ioread32", XWT_TWCSR0_OFFSET, 0, 2)
      [] n = 2 -> I("iowrite32", XWT_TWCSR0_OFFSET,
                    U32Or(x.control_status_reg,
                          U32Or(XWT_CSR0_WRS_MASK, XWT_CSR0_WDS_MASK)), 3)
      [] n = 3 -> I("spin_unlock", 0, 0, 4)                           \* 162
      [] OTHER -> Ret(0)

xwdt_suspend_at(x, n) ==
    CASE n = 0 -> IF wdd.active                                       \* 604-605
                  THEN I("call", 0, IF cfg.wdttype = "XWDT_WDT" THEN "xilinx_wdt_stop"
                                    ELSE "xilinx_wwdt_stop", 1)
                  ELSE Ret(0)
      [] OTHER -> Ret(0)                                              \* 607

xwdt_resume_at(x, n) ==
    CASE n = 0 -> IF wdd.active                                       \* 622-623
                  THEN I("call", 0, IF cfg.wdttype = "XWDT_WDT" THEN "xilinx_wdt_start"
                                    ELSE "xilinx_wwdt_start", 1)
                  ELSE Ret(0)
      [] OTHER -> Ret(x.ret)                                          \* 625

\* The step the innermost function of a context takes next.
At(x) ==
    LET f == Head(x.stack)
    IN CASE f.fn = "xilinx_wwdt_start" -> xilinx_wwdt_start_at(x, f.pc)
         [] f.fn = "xilinx_wwdt_stop" -> xilinx_wwdt_stop_at(x, f.pc)
         [] f.fn = "xilinx_wwdt_keepalive" -> xilinx_wwdt_keepalive_at(x, f.pc)
         [] f.fn = "xilinx_wwdt_set_timeout" -> xilinx_wwdt_set_timeout_at(x, f.pc)
         [] f.fn = "xilinx_wwdt_set_pretimeout" -> xilinx_wwdt_set_pretimeout_at(x, f.pc)
         [] f.fn = "xilinx_wdt_start" -> xilinx_wdt_start_at(x, f.pc)
         [] f.fn = "xilinx_wdt_stop" -> xilinx_wdt_stop_at(x, f.pc)
         [] f.fn = "xilinx_wdt_keepalive" -> xilinx_wdt_keepalive_at(x, f.pc)
         [] f.fn = "xwdt_suspend" -> xwdt_suspend_at(x, f.pc)
         [] OTHER -> xwdt_resume_at(x, f.pc)

\* A return of value v by the innermost function of context c, whose locals
\* are x.  The watchdog core marks the device active when the start it
\* called returns 0 and inactive when the stop it called returns 0.
SmpReturn(c, x, v) ==
    LET f == Head(x.stack)
        rest == Tail(x.stack)
        marked == IF c = "core" /\ v = 0
                       /\ f.fn \in {"xilinx_wdt_start", "xilinx_wwdt_start"}
                  THEN [wdd EXCEPT !.active = TRUE]
                  ELSE IF c = "core" /\ v = 0
                          /\ f.fn \in {"xilinx_wdt_stop", "xilinx_wwdt_stop"}
                  THEN [wdd EXCEPT !.active = FALSE]
                  ELSE wdd
    IN /\ ret' = v
       /\ IF rest = <<>>
          THEN /\ cpu' = [cpu EXCEPT ![c] = [CtxIdle EXCEPT !.holds = x.holds]]
               /\ wdd' = marked
          ELSE /\ cpu' = [cpu EXCEPT ![c] = [x EXCEPT !.stack = rest, !.ret = v]]
               /\ wdd' = wdd
       /\ UNCHANGED <<regs, clk_cnt, lock>>

\* One step of the driver code context c is running.  spin_lock waits while
\* the lock is held.
SmpStep(c) ==
    /\ pc = "registered"
    /\ cpu[c].stack # <<>>
    /\ LET x == cpu[c]
           i == At(x)
           y == [x EXCEPT !.stack = <<[Head(x.stack) EXCEPT !.pc = i.nxt]>> \o Tail(x.stack)]
       IN CASE i.k = "spin_lock" ->
                 /\ ~lock
                 /\ lock' = TRUE
                 /\ cpu' = [cpu EXCEPT ![c] = [y EXCEPT !.holds = TRUE]]
                 /\ log' = <<(<<"spin_lock">>)>> /\ ret' = 0
                 /\ UNCHANGED <<regs, wdd, clk_cnt>>
            [] i.k = "spin_unlock" ->
                 /\ lock' = FALSE
                 /\ cpu' = [cpu EXCEPT ![c] = [y EXCEPT !.holds = FALSE]]
                 /\ log' = <<(<<"spin_unlock">>)>> /\ ret' = 0
                 /\ UNCHANGED <<regs, wdd, clk_cnt>>
            [] i.k = "ioread32" ->
                 /\ cpu' = [cpu EXCEPT ![c] = [y EXCEPT !.control_status_reg = regs[i.off]]]
                 /\ log' = <<(<<"ioread32", i.off, regs[i.off]>>)>> /\ ret' = 0
                 /\ UNCHANGED <<regs, wdd, clk_cnt, lock>>
            [] i.k = "iowrite32" ->
                 /\ regs' = [regs EXCEPT ![i.off] = i.val]
                 /\ cpu' = [cpu EXCEPT ![c] = y]
                 /\ log' = <<(<<"iowrite32", i.off, i.val>>)>> /\ ret' = 0
                 /\ UNCHANGED <<wdd, clk_cnt, lock>>
            [] i.k = "check" ->
                 /\ cpu' = [cpu EXCEPT ![c] = [y EXCEPT !.closed = is_wwdt_in_closed_window(Dev)]]
                 /\ log' = WindowCheck(Dev).log /\ ret' = 0
                 /\ UNCHANGED <<regs, wdd, clk_cnt, lock>>
            [] i.k = "counts" ->
                 /\ cpu' = [cpu EXCEPT ![c] =
                              [y EXCEPT !.time_out = Mul64(clk_get_rate, wdd.timeout),
                                        !.pre_timeout = Mul64(clk_get_rate, wdd.pretimeout)]]
                 /\ log' = <<(<<"clk_get_rate">>)>> /\ ret' = 0
                 /\ UNCHANGED <<regs, wdd, clk_cnt, lock>>
            [] i.k = "clk_enable" ->
                 \E err \in ClkErrsNow :
                     /\ log' = <<(<<"clk_enable", err>>)>>
                     /\ IF err = 0
                        THEN /\ clk_cnt' = clk_cnt + 1
                             /\ cpu' = [cpu EXCEPT ![c] = y]
                             /\ ret' = 0
                             /\ UNCHANGED <<regs, wdd, lock>>
                        ELSE SmpReturn(c, x, err)
            [] i.k = "clk_disable" ->
                 /\ clk_cnt' = clk_cnt - 1
                 /\ cpu' = [cpu EXCEPT ![c] = y]
                 /\ log' = <<(<<"clk_disable">>)>> /\ ret' = 0
                 /\ UNCHANGED <<regs, wdd, lock>>
            [] i.k = "store" ->
                 /\ wdd' = IF i.off = "timeout"
                           THEN [wdd EXCEPT !.timeout = x.new, !.pretimeout = 0]
                           ELSE [wdd EXCEPT !.pretimeout = x.new]
                 /\ cpu' = [cpu EXCEPT ![c] = y]
                 /\ log' = <<(<<"store", i.off>>)>> /\ ret' = 0
                 /\ UNCHANGED <<regs, clk_cnt, lock>>
            [] i.k = "call" ->
                 /\ cpu' = [cpu EXCEPT ![c] =
                              [y EXCEPT !.stack = <<[fn |-> i.val, pc |-> 0]>> \o @]]
                 /\ log' = <<(<<"call", i.val>>)>> /\ ret' = 0
                 /\ UNCHANGED <<regs, wdd, clk_cnt, lock>>
            [] OTHER ->
                 /\ log' = <<(<<"return", Head(x.stack).fn, i.val>>)>>
                 /\ SmpReturn(c, x, i.val)
    /\ op' = c /\ arg' = 0
    /\ UNCHANGED <<cfg, pc, self>>

\* Arguments of set_timeout and set_pretimeout where the operations run
\* side by side.
SmpNewTimes == {4}
SmpNewPretimeouts == {2}

\* The operations the watchdog core calls, with their arguments; it calls
\* start on a device it has not marked active.
CoreCalls ==
    IF cfg.wdttype = "XWDT_WDT"
    THEN {<<"xilinx_wdt_stop", 0>>, <<"xilinx_wdt_keepalive", 0>>}
         \cup (IF wdd.active THEN {} ELSE {<<"xilinx_wdt_start", 0>>})
    ELSE {<<"xilinx_wwdt_stop", 0>>, <<"xilinx_wwdt_keepalive", 0>>}
         \cup (IF wdd.active THEN {} ELSE {<<"xilinx_wwdt_start", 0>>})
         \cup {<<"xilinx_wwdt_set_timeout", t>> : t \in SmpNewTimes}
         \cup {<<"xilinx_wwdt_set_pretimeout", p>> : p \in SmpNewPretimeouts}

\* Context c enters function fn with argument a.
Enter(c, fn, a) ==
    /\ pc = "registered"
    /\ cpu[c].stack = <<>>
    /\ cpu' = [cpu EXCEPT ![c] = [@ EXCEPT !.stack = <<[fn |-> fn, pc |-> 0]>>, !.new = a]]
    /\ op' = c /\ arg' = a /\ ret' = 0 /\ log' = <<(<<"call", fn>>)>>
    /\ UNCHANGED <<cfg, pc, regs, wdd, clk_cnt, lock, self>>

\* The watchdog core calls an operation; it has no other call in progress.
CoreCall ==
    /\ clk_cnt < MaxClkSurplus
    /\ clk_cnt > -MaxClkDeficit
    /\ \E call \in CoreCalls : Enter("core", call[1], call[2])

\* The system suspends or resumes the device.
PmCall ==
    /\ clk_cnt < MaxClkSurplus
    /\ clk_cnt > -MaxClkDeficit
    /\ \E fn \in {"xwdt_suspend", "xwdt_resume"} : Enter("pm", fn, 0)

\* A device of either type, attached: the registers as reset, the
\* watchdog_device as xwdt_probe leaves it.
InitSmp ==
    /\ cfg \in [wdttype : {"XWDT_WWDT"}, clk : {"ok"}, rate : {ToU32(100000000)},
                pretimeout_sec : {0}, wdt_timeout : {0}, wdt_interval : {0},
                irq : {TRUE}]
          \cup [wdttype : {"XWDT_WDT"}, clk : {"ok"}, rate : {ToU32(100000000)},
                pretimeout_sec : {0}, wdt_timeout : {0}, wdt_interval : {0},
                irq : {FALSE}]
    /\ pc = "registered"
    /\ regs = [o \in Offsets |-> U32Zero]
    /\ wdd = IF cfg.wdttype = "XWDT_WDT"
             THEN [ProbeWdtConfig(WddZero, ProbePfreq) EXCEPT !.info = "xilinx_wdt_ident"]
             ELSE ProbeWwdtConfig(WddZero, ProbePfreq, cfg.irq)
    /\ clk_cnt = 0
    /\ lock = FALSE
    /\ self = SelfZero
    /\ op = "probe" /\ arg = 0 /\ ret = 0 /\ log = <<>>
    /\ cpu = [c \in Contexts |-> CtxIdle]

NextSmp ==
    \/ CoreCall
    \/ PmCall
    \/ SmpStep("core")
    \/ SmpStep("pm")
    \/ Isr
    \/ HwPhase

SpecSmp == InitSmp /\ [][NextSmp]_vars

\* ------------------------------------------------------------------ properties

\* Bits of an Enable/Status value, read off its low half.
EnableBit(v) == v[2] % 2 = 1
PhaseSwitchBit(v) == (v[2] \div 256) % 2 = 1

\* The register writes an operation made.
Writes(l) == {i \in DOMAIN l : l[i][1] = "iowrite32"}
\* How often it made the call named n.
Calls(l, n) == Cardinality({i \in DOMAIN l : l[i][1] = n})

\* Every gated window operation begins with the window check: the
\* Enable/Status value it read and its verdict (1 closed, 0 open).
GatedOps == {"stop", "keepalive", "set_timeout", "set_pretimeout"}
Gated(o, l) == o \in GatedOps /\ Len(l) >= 2 /\ l[2][1] = "is_wwdt_in_closed_window"
EsrRead(l) == l[1][3]
Verdict(l) == l[2][2]

\* C1 (as stated): the window check classifies Enable/Status as Closed when
\* the enable bit is clear, Closed when it is set with the phase-switch bit
\* clear, and Open when both are set.
C1_AsStated ==
    Gated(op, log) =>
        (Verdict(log) = 0 <=> (EnableBit(EsrRead(log)) /\ PhaseSwitchBit(EsrRead(log))))

\* C1 (amended): the window check classifies Enable/Status as Closed when
\* the enable bit is clear, Open when it is set with the phase-switch bit
\* clear, and Closed when both are set.
C1_Classification ==
    Gated(op, log) =>
        (Verdict(log) = 0 <=> (EnableBit(EsrRead(log)) /\ ~PhaseSwitchBit(EsrRead(log))))

\* An enabled device with the phase-switch bit clear was classified Open.
C1_Witness ==
    /\ Gated(op, log)
    /\ EnableBit(EsrRead(log)) /\ ~PhaseSwitchBit(EsrRead(log))
    /\ Verdict(log) = 0

\* C2 (as stated): called with the enable bit and the phase-switch bit both
\* set, stop returns an error, keepalive returns success, and neither writes
\* a register.
C2_AsStated ==
    (Gated(op, log) /\ op \in {"stop", "keepalive"}
        /\ EnableBit(EsrRead(log)) /\ PhaseSwitchBit(EsrRead(log)))
    => /\ op = "stop" => ret # 0
       /\ op = "keepalive" => ret = 0
       /\ Writes(log) = {}

\* C2 (amended): called with the enable bit set and the phase-switch bit
\* clear, stop returns an error, keepalive returns success, and neither
\* writes a register.
C2_OpenWindow ==
    (Gated(op, log) /\ op \in {"stop", "keepalive"}
        /\ EnableBit(EsrRead(log)) /\ ~PhaseSwitchBit(EsrRead(log)))
    => /\ op = "stop" => ret = -EINVAL
       /\ op = "keepalive" => ret = 0
       /\ Writes(log) = {}

\* stop was refused on an enabled device whose phase-switch bit was clear.
C2_Witness ==
    /\ op = "stop" /\ Gated(op, log)
    /\ EnableBit(EsrRead(log)) /\ ~PhaseSwitchBit(EsrRead(log))
    /\ ret = -EINVAL
    /\ Writes(log) = {}

\* C3: a window stop whose window check reports Open returns an error,
\* leaves every register as it was and does not disable the clock; one whose
\* check reports Closed clears the enable bit and calls clk_disable once if
\* the device was marked active, and not at all if it was not.
C3_Stop ==
    [][(op' = "stop" /\ Gated(op', log')) =>
          /\ Verdict(log') = 0 =>
                /\ ret' # 0
                /\ regs' = regs /\ Writes(log') = {}
                /\ clk_cnt' = clk_cnt /\ Calls(log', "clk_disable") = 0
          /\ Verdict(log') = 1 =>
                /\ ret' = 0
                /\ ~EnableBit(regs'[XWT_WWDT_ESR_OFFSET])
                /\ Calls(log', "clk_disable") = (IF wdd.active THEN 1 ELSE 0)
                /\ clk_cnt' = clk_cnt - (IF wdd.active THEN 1 ELSE 0)]_vars

\* An active device was stopped in the closed window: enable bit clear, one
\* clk_disable.
C3_Witness ==
    /\ op = "stop" /\ Gated(op, log) /\ Verdict(log) = 1
    /\ EnableBit(EsrRead(log))
    /\ ret = 0
    /\ ~EnableBit(regs[XWT_WWDT_ESR_OFFSET])
    /\ Calls(log, "clk_disable") = 1

\* C4: a window keepalive whose window check reports Open returns success
\* and leaves all five registers as they were.
C4_KeepaliveOpen ==
    [][(op' = "keepalive" /\ Gated(op', log') /\ Verdict(log') = 0) =>
          /\ ret' = 0
          /\ \A o \in Offsets : regs'[o] = regs[o]
          /\ Writes(log') = {}]_vars

\* A keepalive arrived in the open window and was ignored.
C4_Witness ==
    /\ op = "keepalive" /\ Gated(op, log) /\ Verdict(log) = 0
    /\ ret = 0
    /\ Len(log) = 2

\* C5: set_timeout and set_pretimeout return an error when the window check
\* reports Open, when the new timeout is outside [min_timeout, max_timeout],
\* and when the new pretimeout is not below the timeout; whenever they
\* return an error, timeout and pretimeout keep their values and no register
\* is written.
C5_Rejections ==
    [][/\ (op' = "set_timeout" /\ Gated(op', log')
            /\ (Verdict(log') = 0 \/ arg' < wdd.min_timeout \/ arg' > wdd.max_timeout))
          => ret' # 0
       /\ (op' = "set_pretimeout" /\ Gated(op', log')
            /\ (Verdict(log') = 0 \/ arg' >= wdd.timeout))
          => ret' # 0
       /\ (op' \in {"set_timeout", "set_pretimeout"} /\ ret' # 0)
          => /\ wdd'.timeout = wdd.timeout
             /\ wdd'.pretimeout = wdd.pretimeout
             /\ regs' = regs /\ Writes(log') = {}]_vars

\* set_pretimeout was refused in the closed window because the value was not
\* below the timeout.
C5_Witness ==
    /\ op = "set_pretimeout" /\ Gated(op, log) /\ Verdict(log) = 1
    /\ arg >= wdd.timeout
    /\ ret = -EINVAL

\* C6: in the closed window set_pretimeout(P) succeeds and commits
\* pretimeout = P for every P with 0 <= P < timeout, P = 0 included (stated
\* for a device whose clock rate is above 0).
C6_AsStated ==
    [][(op' = "set_pretimeout" /\ Gated(op', log') /\ Verdict(log') = 1
          /\ cfg.rate # U32Zero
          /\ 0 <= arg' /\ arg' < wdd.timeout)
       => (ret' = 0 /\ wdd'.pretimeout = arg')]_vars

\* C7: once a window device is attached, whatever pretimeout-sec and module
\* parameter it was given and whatever set_timeout and set_pretimeout calls
\* followed, pretimeout is 0 or below timeout, and timeout lies within
\* [min_timeout, max_timeout] (stated for a device whose clock rate is above
\* 0).
C7_AsStated ==
    (pc = "registered" /\ cfg.rate # U32Zero) =>
        /\ wdd.pretimeout = 0 \/ wdd.pretimeout < wdd.timeout
        /\ wdd.min_timeout <= wdd.timeout
        /\ wdd.timeout <= wdd.max_timeout

\* f added to itself n times, modulo 2^32.
RECURSIVE Times(_, _)
Times(f, n) == IF n = 0 THEN U32Zero ELSE U32Add(f, Times(f, n - 1))

\* A start that succeeded on a valid configuration: clock rate above 0,
\* 1 <= timeout <= max_timeout, 0 <= pretimeout < timeout.
ValidStart ==
    /\ op = "start" /\ ret = 0
    /\ cfg.wdttype = "XWDT_WWDT"
    /\ cfg.rate # U32Zero
    /\ 1 <= wdd.timeout /\ wdd.timeout <= wdd.max_timeout
    /\ 0 <= wdd.pretimeout /\ wdd.pretimeout < wdd.timeout

\* C8: after a successful window start on a valid configuration: without a
\* pretimeout First-Window = 0, Second-Window = f*T and Function-Control = 0;
\* with one First-Window = f*T - f*P, Second-Window = f*P and
\* Function-Control = the top byte of Second-Window in bits 15:8, or 0xC0; in
\* both cases First-Window + Second-Window = f*T modulo 2^32.
C8_Windows ==
    ValidStart =>
        LET fwr == regs[XWT_WWDT_FWR_OFFSET]
            swr == regs[XWT_WWDT_SWR_OFFSET]
            fcr == regs[XWT_WWDT_FCR_OFFSET]
            fT == Times(cfg.rate, wdd.timeout)
            fP == Times(cfg.rate, wdd.pretimeout)
        IN /\ wdd.pretimeout = 0 => (fwr = <<0, 0>> /\ swr = fT /\ fcr = <<0, 0>>)
           /\ wdd.pretimeout > 0 =>
                /\ swr = fP
                /\ U32Add(fwr, fP) = fT
                /\ fcr = <<0, (swr[1] \div 256) * 256 + 192>>
           /\ U32Add(fwr, swr) = fT

\* The scenario f = 100 MHz, T = 10 s, P = 2 s: First-Window 800_000_000,
\* Second-Window 200_000_000 (0x0BEBC200), Function-Control 0x0BC0.
C8_Witness ==
    /\ ValidStart
    /\ cfg.rate = ToU32(100000000) /\ wdd.timeout = 10 /\ wdd.pretimeout = 2
    /\ regs[XWT_WWDT_FWR_OFFSET] = ToU32(800000000)
    /\ regs[XWT_WWDT_SWR_OFFSET] = ToU32(200000000)
    /\ regs[XWT_WWDT_FCR_OFFSET] = ToU32(3008)

\* C9: at attach of a window device max_timeout = floor((2^32 - 1) / f) for
\* a clock rate f > 0, and for f = 0 the probe reports an error and performs
\* no division by zero.
C9_AsStated ==
    (op = "probe" /\ cfg.wdttype = "XWDT_WWDT") =>
        /\ \A i \in DOMAIN log : log[i][1] = "udiv" => log[i][2] # U32Zero
        /\ (pc = "registered" /\ cfg.rate # U32Zero) =>
              /\ Le64(Mul64(cfg.rate, wdd.max_timeout), U32_MAX)
              /\ ~Le64(Mul64(cfg.rate, wdd.max_timeout + 1), U32_MAX)
        /\ (cfg.rate = U32Zero /\ cfg.clk # "defer") => (pc = "failed" /\ ret # 0)

\* C10: with a timebase that never changes the self-test leaves its loop
\* after exactly 65536 iterations, with the lock released and the probe
\* failed; with a timebase that changed it passes.
C10_AsStated ==
    [][(pc = "selftest" /\ pc' # "selftest") =>
          /\ ~lock'
          /\ self.timer_value2 = self.timer_value1 =>
                /\ pc' = "failed" /\ ret' = -1
                /\ self.i = XWT_MAX_SELFTEST_LOOP_COUNT
          /\ self.timer_value2 # self.timer_value1 => ret' # -1]_vars

\* The clk_enable calls an operation made.
Enables(l) == {i \in DOMAIN l : l[i][1] = "clk_enable"}

\* C11: for both variants, a start whose clk_enable fails returns that
\* error, and a window start that reads a clock rate of 0 returns an error;
\* a start that returns an error has written no register and leaves every
\* register as it was; every clk_enable call of a start comes before its
\* first register write, and a start that writes registers has made a
\* successful clk_enable call first (the window start makes none on a device
\* already marked active, whose clock it enabled before).
C11_StartFailure ==
    [][op' = "start" =>
          /\ \A i \in Enables(log') : log'[i][2] # 0 => ret' = log'[i][2]
          /\ (cfg.wdttype = "XWDT_WWDT" /\ clk_get_rate = U32Zero) => ret' = -EINVAL
          /\ ret' # 0 => (regs' = regs /\ Writes(log') = {})
          /\ \A w \in Writes(log'), i \in Enables(log') : i < w
          /\ (Writes(log') # {} /\ (cfg.wdttype = "XWDT_WDT" \/ ~wdd.active))
             => \E i \in Enables(log') : log'[i][2] = 0]_vars

\* A timebase start failed on clk_enable: the error came back, nothing was
\* written.
C11_Witness ==
    /\ op = "start" /\ cfg.wdttype = "XWDT_WDT"
    /\ log = <<(<<"clk_enable", -5>>)>>
    /\ ret = -5

\* A window start failed on a clock rate of 0: nothing was written.
C11_WitnessRate ==
    /\ op = "start" /\ cfg.wdttype = "XWDT_WWDT"
    /\ clk_get_rate = U32Zero
    /\ ret = -EINVAL /\ log = <<>>

\* The two register writes of the window stop, in order: Master Write
\* Control unlocked, Enable/Status written with the enable bit clear.
StopSequence(l) ==
    \E i, j \in Writes(l) :
        /\ i < j
        /\ l[i][2] = XWT_WWDT_MWR_OFFSET /\ l[i][3] = XWT_WWDT_MWR_MASK
        /\ l[j][2] = XWT_WWDT_ESR_OFFSET /\ ~EnableBit(l[j][3])

\* C12: suspend of an active window device returns success and runs stop's
\* register sequence whatever the window state: after it the enable bit is
\* clear, whether the device was in the open or the closed window.
C12_AsStated ==
    [][(op' = "suspend" /\ cfg.wdttype = "XWDT_WWDT" /\ wdd.active) =>
          /\ ret' = 0
          /\ StopSequence(log')
          /\ ~EnableBit(regs'[XWT_WWDT_ESR_OFFSET])]_vars

\* The clock calls of the operations are in balance with the hardware: the
\* count of clk_enable calls less clk_disable calls is 1 with the enable bit
\* set and 0 with it clear.
ClkBalanced ==
    clk_cnt = (IF EnableBit(regs[XWT_WWDT_ESR_OFFSET]) THEN 1 ELSE 0)

\* The operations C13 is about.
ClockedOps == {"start", "stop", "set_timeout", "set_pretimeout", "suspend", "resume"}

\* C13: on a window device the clock calls are in balance once it is
\* attached, and stay in balance over every start, stop, set_timeout,
\* set_pretimeout, suspend and resume (the device marked active after a start
\* that succeeds and inactive after a stop that succeeds; a suspended device
\* is called with resume only): the count is never negative and never 2 or
\* more; in particular the resume that follows the suspend of an active
\* device, when it returns success, leaves the clock enabled.
C13_AsStated ==
    [][/\ (cfg.wdttype = "XWDT_WWDT" /\ pc = "attach" /\ pc' = "registered")
          => ClkBalanced'
       /\ (/\ cfg.wdttype = "XWDT_WWDT" /\ pc = "registered" /\ ClkBalanced
           /\ op' \in ClockedOps
           /\ op # "suspend")
          => (ClkBalanced' /\ clk_cnt' \in {0, 1})
       /\ (/\ cfg.wdttype = "XWDT_WWDT" /\ pc = "registered"
           /\ op = "suspend" /\ op' = "resume" /\ wdd.active /\ ret' = 0)
          => (ClkBalanced' /\ clk_cnt' = 1)]_vars

\* C14: when the start that set_timeout or set_pretimeout invokes on an
\* active device fails, here because the clock rate reads 0, the setter
\* returns an error.
C14_AsStated ==
    [][(/\ op' \in {"set_timeout", "set_pretimeout"}
        /\ Gated(op', log') /\ Verdict(log') = 1
        /\ wdd.active
        /\ clk_get_rate = U32Zero)
       => ret' # 0]_vars

\* Enable/Status, Function-Control, First-Window and Second-Window.
ProtectedOffsets ==
    {XWT_WWDT_ESR_OFFSET, XWT_WWDT_FCR_OFFSET, XWT_WWDT_FWR_OFFSET, XWT_WWDT_SWR_OFFSET}

\* Accesses m < w of l lie in one lock-held section: a spin_lock before m,
\* and no lock call from it to w.
SameSection(l, m, w) ==
    \E a \in 1..(m - 1) :
        /\ l[a][1] = "spin_lock"
        /\ \A k \in (a + 1)..w : l[k][1] \notin {"spin_lock", "spin_unlock"}

\* C18: in every operation of the window device, each write of
\* Enable/Status, First-Window, Second-Window or Function-Control comes
\* after a write that sets bit 0 of Master Write Control, in the same
\* lock-held section.
C18_MasterWrite ==
    cfg.wdttype = "XWDT_WWDT" =>
        \A w \in Writes(log) :
            log[w][2] \in ProtectedOffsets =>
                \E m \in Writes(log) :
                    /\ m < w
                    /\ log[m][2] = XWT_WWDT_MWR_OFFSET
                    /\ TestMask(log[m][3], XWT_WWDT_MWR_MASK)
                    /\ SameSection(log, m, w)

\* A keepalive in the closed window wrote Enable/Status twice, after
\* unlocking Master Write Control under the lock.
C18_Witness ==
    /\ op = "keepalive" /\ Gated(op, log) /\ Verdict(log) = 1
    /\ log[3] = <<"spin_lock">>
    /\ log[4] = <<"iowrite32", XWT_WWDT_MWR_OFFSET, XWT_WWDT_MWR_MASK>>
    /\ Cardinality({w \in Writes(log) : log[w][2] = XWT_WWDT_ESR_OFFSET}) = 2

\* C19: a set_timeout or set_pretimeout that succeeds on an active window
\* device whose clock rate is above 0 commits the new value and returns with
\* First-Window and Second-Window holding the counts of the new timeout and
\* pretimeout (as in C8) and with the enable bit set; one that succeeds on a
\* device not active commits the new value, writes no register and leaves
\* every register as it was.
C19_Rearm ==
    [][(cfg.wdttype = "XWDT_WWDT" /\ op' \in {"set_timeout", "set_pretimeout"} /\ ret' = 0)
       => /\ op' = "set_timeout" => wdd'.timeout = arg'
          /\ op' = "set_pretimeout" => wdd'.pretimeout = arg'
          /\ (wdd.active /\ clk_get_rate # U32Zero) =>
                LET fwr == regs'[XWT_WWDT_FWR_OFFSET]
                    swr == regs'[XWT_WWDT_SWR_OFFSET]
                    fT == Times(clk_get_rate, wdd'.timeout)
                    fP == Times(clk_get_rate, wdd'.pretimeout)
                IN /\ wdd'.pretimeout = 0 => (fwr = U32Zero /\ swr = fT)
                   /\ wdd'.pretimeout > 0 => (swr = fP /\ U32Add(fwr, fP) = fT)
                   /\ EnableBit(regs'[XWT_WWDT_ESR_OFFSET])
          /\ ~wdd.active => (regs' = regs /\ Writes(log') = {})]_vars

\* set_pretimeout(2) succeeded on an active device at 100 MHz with a timeout
\* of 10 s: First-Window 800_000_000, Second-Window 200_000_000, enabled.
C19_Witness ==
    /\ op = "set_pretimeout" /\ arg = 2 /\ ret = 0
    /\ wdd.active /\ wdd.timeout = 10 /\ wdd.pretimeout = 2
    /\ clk_get_rate = ToU32(100000000)
    /\ regs[XWT_WWDT_FWR_OFFSET] = ToU32(800000000)
    /\ regs[XWT_WWDT_SWR_OFFSET] = ToU32(200000000)
    /\ EnableBit(regs[XWT_WWDT_ESR_OFFSET])
    /\ Writes(log) # {}

\* C20: every set_timeout that succeeds on a window device leaves pretimeout
\* at 0, whatever it was before, a pretimeout below the new timeout
\* included.
C20_PretimeoutReset ==
    [][(cfg.wdttype = "XWDT_WWDT" /\ op' = "set_timeout" /\ ret' = 0)
       => (wdd'.timeout = arg' /\ wdd'.pretimeout = 0)]_vars

\* set_timeout(4) succeeded on a device never started, attached with a
\* pretimeout of 2 s: the pretimeout is gone.
C20_Witness ==
    /\ op = "set_timeout" /\ arg = 4 /\ ret = 0
    /\ cfg.pretimeout_sec = 2
    /\ wdd.timeout = 4 /\ wdd.pretimeout = 0

\* ------------------------------------------------------------------ properties of the operations run side by side

\* The step just taken was a register write, or a read inside a function's
\* register sequence, or a clock call, or a return, by context c.
WriteBy(c) == op' = c /\ log'[1][1] = "iowrite32"
ReadBy(c) == op' = c /\ Len(log') = 1 /\ log'[1][1] = "ioread32"
ClockCallBy(c) == op' = c /\ log'[1][1] \in {"clk_enable", "clk_disable"}
ReturnBy(c) == op' = c /\ log'[1][1] = "return"

\* Frame f is between the first and the last register access of its
\* function's register sequence: the first is made, the last is not.
Amid(f) ==
    \/ f.fn = "xilinx_wwdt_start" /\ f.pc \in 4..10
    \/ f.fn = "xilinx_wwdt_stop" /\ f.pc = 3
    \/ f.fn = "xilinx_wwdt_keepalive" /\ f.pc \in 3..6
    \/ f.fn = "xilinx_wdt_start" /\ f.pc \in 3..4
    \/ f.fn = "xilinx_wdt_stop" /\ f.pc \in 2..3
    \/ f.fn = "xilinx_wdt_keepalive" /\ f.pc = 2
MidSequence(c) == cpu[c].stack # <<>> /\ Amid(Head(cpu[c].stack))

\* Context c has classified the window as closed in a gated operation and
\* has not yet made the last of the register writes that follow the check.
BetweenCheckAndWrites(c) ==
    LET st == cpu[c].stack
    IN /\ st # <<>>
       /\ cpu[c].closed = 1
       /\ \/ Head(st).fn = "xilinx_wwdt_stop" /\ Head(st).pc \in 1..3
          \/ Head(st).fn = "xilinx_wwdt_keepalive" /\ Head(st).pc \in 1..6
          \/ /\ Head(st).fn \in {"xilinx_wwdt_set_timeout", "xilinx_wwdt_set_pretimeout"}
             /\ Head(st).pc \in 1..2
             /\ wdd.active
          \/ /\ Len(st) = 2
             /\ st[2].fn \in {"xilinx_wwdt_set_timeout", "xilinx_wwdt_set_pretimeout"}
             /\ Head(st).pc <= 10

\* C15: the Enable/Status read that classifies the window is made in the
\* critical section of the writes that follow it, so that from the window
\* check of a stop, keepalive, set_timeout or set_pretimeout to the last of
\* its register writes no other context writes a register.
C15_AsStated ==
    [][\A c \in Contexts :
          BetweenCheckAndWrites(c) => \A c2 \in Contexts \ {c} : ~WriteBy(c2)]_vars

\* C16: for both variants, every register write, and every register read
\* of a function's register sequence, is made by a context that holds the
\* lock; at most one context holds it; a context that is between the first
\* and the last register access of a sequence holds it, so that no other
\* context writes a register meanwhile; no function returns holding it, and
\* none calls clk_enable or clk_disable holding it.
C16_Locking ==
    [][/\ \A c \in Contexts :
             /\ (WriteBy(c) \/ ReadBy(c)) => (lock /\ cpu[c].holds)
             /\ WriteBy(c) => \A c2 \in Contexts \ {c} : ~MidSequence(c2)
             /\ ClockCallBy(c) => ~cpu[c].holds
             /\ ReturnBy(c) => ~cpu[c].holds
             /\ MidSequence(c) => (lock /\ cpu[c].holds)
       /\ Cardinality({c \in Contexts : cpu[c].holds}) <= 1
       /\ lock <=> (\E c \in Contexts : cpu[c].holds)]_vars

\* The core is half-way through a register sequence, holding the lock, and
\* the power-management context waits for the lock.
C16_Witness ==
    /\ MidSequence("core") /\ cpu["core"].holds
    /\ cpu["pm"].stack # <<>>
    /\ At(cpu["pm"]).k = "spin_lock"

\* C17: whenever the pretimeout interrupt fires, even while an operation
\* holds the device lock, the handler calls watchdog_notify_pretimeout once
\* and nothing else (no register access, no lock call), leaves the
\* registers, the lock and the running operations as they were and returns
\* IRQ_HANDLED; it can run in every state of a registered device whose
\* interrupt was requested, and whenever the lock is held its holder is
\* inside a function and its next step is not one that waits for the lock.
C17_Isr ==
    [][/\ op' = "isr" =>
             /\ log' = <<(<<"watchdog_notify_pretimeout">>)>>
             /\ ret' = IRQ_HANDLED
             /\ regs' = regs /\ lock' = lock /\ cpu' = cpu
             /\ clk_cnt' = clk_cnt /\ wdd' = wdd
       /\ (pc = "registered" /\ wdd.info = "xilinx_wwdt_pretimeout_ident") => ENABLED Isr
       /\ lock => \E c \in Contexts :
                      /\ cpu[c].holds
                      /\ cpu[c].stack # <<>>
                      /\ At(cpu[c]).k # "spin_lock"]_vars

\* The handler ran while the core held the lock half-way through a register
\* sequence.
C17_Witness ==
    /\ op = "isr" /\ ret = IRQ_HANDLED
    /\ lock /\ cpu["core"].holds /\ MidSequence("core")

====
